---- MODULE Spec2Model ----
(***************************************************************************)
(* OpenCodeController (scripts/opencode_controller.py): lifecycle of the   *)
(* spawned "opencode serve" child, the _request helper with its auto-start *)
(* retry, the wait_for_completion poller, and quick_task.                  *)
(*                                                                         *)
(* The controller is single threaded.  The environment is the HTTP server  *)
(* (each probe and each request gets an answer chosen by the environment)  *)
(* and the child processes (a running child may exit at any moment).  For  *)
(* quick_task the server's side of the session is part of the state: it    *)
(* accepts the prompt, begins the work and stores the reply in steps of    *)
(* its own.                                                                *)
(***************************************************************************)
EXTENDS Integers, Sequences, FiniteSets, TLC

\* ---------------------------------------------------------------- bounds
MaxChildren == 2        \* children Popen can create in one run
MaxDepth == 2           \* connection errors one top-level _request can meet
MaxServerTimeout == 1   \* server_timeout, in iterations of the startup loop
MaxWait == 2            \* wait_for_completion timeout, in poll iterations
MaxMsgs == 2            \* messages in a get_messages answer

\* ------------------------------------------------------ program constants
LookBack == 10          \* get_messages(session_id, limit=10)

Children == 1..MaxChildren
Sessions == {"s1", "s2"}
StatusNames == {"idle", "busy"}
Statuses == {200, 204, 304, 404}

\* ------------------------------------------------------------ JSON values
\* Every JSON document is a record of the same shape, so that any two can be
\* compared: t is its type, and only the field of that type is meaningful.
EmptyMap == [x \in {} |-> "idle"]

JNull == [t |-> "null", b |-> FALSE, st |-> EmptyMap, msgs |-> <<>>, s |-> <<>>]

JBool(v) == [t |-> "bool", b |-> v, st |-> EmptyMap, msgs |-> <<>>, s |-> <<>>]

JDict(m) == [t |-> "dict", b |-> FALSE, st |-> m, msgs |-> <<>>, s |-> <<>>]

JList(l) == [t |-> "list", b |-> FALSE, st |-> EmptyMap, msgs |-> l, s |-> <<>>]

JStr(x) == [t |-> "str", b |-> FALSE, st |-> EmptyMap, msgs |-> <<>>, s |-> x]

\* Python truthiness of a document (the "or" of get_session_status).
Truthy(v) ==
    CASE v.t = "null" -> FALSE
      [] v.t = "bool" -> v.b
      [] v.t = "dict" -> DOMAIN v.st # {}
      [] v.t = "list" -> v.msgs # <<>>
      [] OTHER -> v.s # <<>>

\* A response body: response.text is empty or not, response.json() is doc.
EmptyBody == [empty |-> TRUE, doc |-> JNull]

Body(d) == [empty |-> FALSE, doc |-> d]

\* response.ok of the requests library: no 4xx or 5xx status.
ResponseOk(status) == status < 400

\* response.json(): the document the body text encodes.
ResponseJson(body) == body.doc

\* --------------------------------------------------------------- messages
Texts == {<<"a">>, <<"b">>}
Parts == [type : {"text"}, text : Texts] \cup {[type |-> "tool", text |-> <<>>]}
SeqsUpTo(S, n) == UNION {[1..k -> S] : k \in 0..n}
\* A message's parts: every sequence of distinct parts.
PartSeqs ==
    {p \in SeqsUpTo(Parts, Cardinality(Parts)) :
        \A i, j \in DOMAIN p : i # j => p[i] # p[j]}
Messages == [role : {"user", "assistant"}, parts : PartSeqs]
MsgLists == SeqsUpTo(Messages, MaxMsgs)

\* The answers the model's server gives to get_messages in the lifecycle
\* specification, where the message contents are not the subject.
SampleLists ==
    {<<>>,
     <<[role |-> "assistant", parts |-> <<[type |-> "text", text |-> <<"a">>]>>]>>}

\* ---------------------------------------------------------- pure helpers
\* Mutant of GetSessionStatus: a session missing from the map is taken to be
\* idle.
GetSessionStatusDefaultIdle(result, sid) ==
    LET all_status == IF Truthy(result) THEN result.st ELSE EmptyMap
    IN  IF sid \in DOMAIN all_status THEN all_status[sid] ELSE "idle"

\* get_session_status: (all_status or {}).get(session_id, {"status": "unknown"}),
\* projected on the record's "status".
GetSessionStatus(result, sid) ==
    LET all_status == IF Truthy(result) THEN result.st ELSE EmptyMap
    IN  IF sid \in DOMAIN all_status THEN all_status[sid] ELSE "unknown"

\* is_session_idle: status.get("status") == "idle".
IsSessionIdle(result, sid) == GetSessionStatus(result, sid) = "idle"

\* get_messages: result if isinstance(result, list) else [].
GetMessages(result) == IF result.t = "list" THEN result.msgs ELSE <<>>

\* [p.get("text", "") for p in parts if p.get("type") == "text"]
RECURSIVE TextsOf(_)
TextsOf(parts) ==
    IF parts = <<>> THEN <<>>
    ELSE LET p == Head(parts)
         IN  (IF p.type = "text" THEN <<p.text>> ELSE <<>>) \o TextsOf(Tail(parts))

\* "\n".join(texts)
RECURSIVE JoinNewline(_)
JoinNewline(texts) ==
    IF texts = <<>> THEN <<>>
    ELSE IF Len(texts) = 1 THEN texts[1]
    ELSE texts[1] \o <<"\n">> \o JoinNewline(Tail(texts))

\* for msg in reversed(messages): the first assistant message met from index
\* i downwards decides the result; none gives "".
RECURSIVE ScanReversed(_, _)
ScanReversed(messages, i) ==
    IF i = 0 THEN <<>>
    ELSE IF messages[i].role = "assistant"
         THEN JoinNewline(TextsOf(messages[i].parts))
         ELSE ScanReversed(messages, i - 1)

\* Mutant of LastAssistantText: the scan runs forwards, so the first assistant
\* message decides.
RECURSIVE ScanForward(_, _)
ScanForward(messages, i) ==
    IF i > Len(messages) THEN <<>>
    ELSE IF messages[i].role = "assistant"
         THEN JoinNewline(TextsOf(messages[i].parts))
         ELSE ScanForward(messages, i + 1)

FirstAssistantText(messages) == ScanForward(messages, 1)

LastAssistantText(messages) == ScanReversed(messages, Len(messages))

\* delete_session: result if isinstance(result, bool) else True.
DeleteResult(result) == IF result.t = "bool" THEN result ELSE JBool(TRUE)

\* ----------------------------------------------------------- health probe
\* The statuses the health endpoint may answer with.
HealthStatuses == {200, 503}

\* What requests.get(.../global/health, timeout=2) ends in: a response with a
\* status, or an exception of the requests library.  RequestException stands
\* for its classes that are neither ConnectionError nor Timeout (an invalid
\* URL, a redirect loop, a body cut short).
HealthOutcomes ==
    {[exc |-> "", status |-> s] : s \in HealthStatuses} \cup
    {[exc |-> e, status |-> 0] :
        e \in {"ConnectionError", "Timeout", "RequestException"}}

\* Mutant of IsServerRunning: any response counts as a running server.
IsServerRunningAnyResponse(h) ==
    IF h.exc = "" THEN [up |-> TRUE, exc |-> ""]
    ELSE IF h.exc \in {"ConnectionError", "Timeout"} THEN [up |-> FALSE, exc |-> ""]
    ELSE [up |-> FALSE, exc |-> h.exc]

\* is_server_running, lines 83-92: the boolean it returns (up), or the
\* exception it lets out (exc) because no except clause names it.
IsServerRunning(h) ==
    IF h.exc = "" THEN [up |-> (h.status = 200), exc |-> ""]
    ELSE IF h.exc \in {"ConnectionError", "Timeout"} THEN [up |-> FALSE, exc |-> ""]
    ELSE [up |-> FALSE, exc |-> h.exc]

\* One call of is_server_running: what the probe met and what the call gave.
Health(h) == [h |-> h, r |-> IsServerRunning(h)]

NoHealth == [h |-> [exc |-> "", status |-> 0], r |-> [up |-> FALSE, exc |-> ""]]

\* -------------------------------------------------------- captured output
\* What communicate() may return for each stream of an exited child: nothing,
\* the bytes of "ok", or a byte that no UTF-8 text contains.
ByteStrings == {<<>>, <<111, 107>>, <<255>>}

NoCapture == [stdout |-> <<>>, stderr |-> <<>>]

\* The character a byte below 128 encodes.
Chr(b) == CASE b = 111 -> "o" [] b = 107 -> "k" [] OTHER -> "?"

\* bytes.decode(): UTF-8, strict.  Bytes below 128 are one character each; a
\* byte 255 begins no character and raises UnicodeDecodeError.
Utf8Decode(bytes) ==
    IF \E i \in DOMAIN bytes : bytes[i] >= 128
    THEN [ok |-> FALSE, text |-> <<>>]
    ELSE [ok |-> TRUE,
          text |-> IF bytes = <<>> THEN <<>>
                   ELSE [i \in 1..Len(bytes) |-> Chr(bytes[i])]]

\* start_server, lines 133-136 and 144-145: the message of the error raised
\* for a child that exited, f"...exited early.\nstdout: {stdout.decode()}\n
\* stderr: {stderr.decode()}", wrapped by the except clause of line 144; a
\* decode that raises is wrapped there instead.
ExitedEarlyMessage(so, se) ==
    LET o == Utf8Decode(so)
        e == Utf8Decode(se)
    IN  IF o.ok /\ e.ok
        THEN <<"Failed to start server", "Server process exited early", "stdout">>
             \o o.text \o <<"stderr">> \o e.text
        ELSE <<"Failed to start server", "UnicodeDecodeError">>

\* ------------------------------------------------------------- outcomes
NoOutcome ==
    [op |-> "none", kind |-> "none", exc |-> "", msg |-> <<>>, status_code |-> 0,
     response |-> EmptyBody, value |-> JNull, sid |-> "", seconds |-> 0]

Returned(o, v) == [NoOutcome EXCEPT !.op = o, !.kind = "return", !.value = v]

Raised(o, e, m) == [NoOutcome EXCEPT !.op = o, !.kind = "raise", !.exc = e, !.msg = m]

\* OpenCodeAPIError(message, status_code=response.status_code, response=response.text)
ApiError(o, status, body) ==
    [Raised(o, "OpenCodeAPIError", <<"API error">>) EXCEPT
        !.status_code = status, !.response = body]

\* Mutant of RequestResult: an error status is not raised, the body is
\* returned like a success.
RequestResultSwallowsErrors(o, status, body) ==
    IF status = 204 THEN Returned(o, JNull)
    ELSE IF ~body.empty THEN Returned(o, ResponseJson(body))
    ELSE Returned(o, JNull)

\* _request, lines 184-194: what one response becomes.
RequestResult(o, status, body) ==
    IF status = 204 THEN Returned(o, JNull)
    ELSE IF ~ResponseOk(status) THEN ApiError(o, status, body)
    ELSE IF ~body.empty THEN Returned(o, ResponseJson(body))
    ELSE Returned(o, JNull)

\* -------------------------------------------------------------- requests
NoArgs ==
    [method |-> "", path |-> "", sid |-> "", json_data |-> "", params |-> "",
     limit |-> 0, timeout |-> 0]

CallArgs(o, sid) ==
    CASE o = "create_session" ->
           [method |-> "POST", path |-> "/session", sid |-> "",
            json_data |-> "title", params |-> "", limit |-> 0, timeout |-> 30]
      [] o = "send_async" ->
           [method |-> "POST", path |-> "/session/{id}/prompt_async", sid |-> sid,
            json_data |-> "parts", params |-> "", limit |-> 0, timeout |-> 5]
      [] o = "delete_session" ->
           [method |-> "DELETE", path |-> "/session/{id}", sid |-> sid,
            json_data |-> "", params |-> "", limit |-> 0, timeout |-> 30]
      [] o = "get_session_status" ->
           [method |-> "GET", path |-> "/session/status", sid |-> "",
            json_data |-> "", params |-> "", limit |-> 0, timeout |-> 30]
      [] OTHER ->
           [method |-> "GET", path |-> "/session/{id}/message", sid |-> sid,
            json_data |-> "", params |-> "limit", limit |-> LookBack,
            timeout |-> 30]

StatusMaps == UNION {[S -> StatusNames] : S \in SUBSET Sessions}

\* The bodies the server may send: none with 204 No Content and 304 Not
\* Modified, an error document (or nothing) with an error status, and else a
\* document of the endpoint (or nothing); lists are the message lists it may
\* return.
BodiesFor(status, path, lists) ==
    IF status \in {204, 304} THEN {EmptyBody}
    ELSE IF status >= 400 THEN {EmptyBody, Body(JDict(EmptyMap))}
    ELSE
    {EmptyBody} \cup
    (CASE path = "/session/status" ->
            {Body(JNull)} \cup {Body(JDict(m)) : m \in StatusMaps}
       [] path = "/session/{id}/message" ->
            {Body(JNull), Body(JDict(EmptyMap))} \cup {Body(JList(l)) : l \in lists}
       [] OTHER ->
            {Body(JNull), Body(JBool(TRUE)), Body(JBool(FALSE)), Body(JDict(EmptyMap))})

\* ------------------------------------------------------------------ state
VARIABLES
    auto_start,      \* self.auto_start
    server_timeout,  \* self.server_timeout, in iterations of the startup loop
    server_process,  \* self._server_process: 0 is None, else the child's id
    proc,            \* each child: "none" (not created), "running", "exited"
    sig,             \* the signals this controller sent to each child
    scope,           \* "none", "constructing", "in", "left", "ctor_failed"
    op,              \* the public operation in progress ("none" between calls)
    pc,              \* the controller's position inside it
    outcome,         \* how the last public operation ended
    stop_ret,        \* what the last stop_server returned: "none", "True", "False"
    args,            \* the arguments of the running _request
    depth,           \* recursion depth of the running _request
    ret,             \* what the last _request returned
    resp,            \* the last HTTP response received
    waited,          \* start_server: time.time() - start_time
    elapsed,         \* wait_for_completion: time.time() - start_time
    timeout,         \* wait_for_completion: timeout
    session_id,      \* wait_for_completion: session_id
    nStart,          \* start_server calls made by the running top-level _request
    nHttp,           \* HTTP requests issued by the running top-level _request
    sent,            \* those requests' arguments, in order
    proc0,           \* _server_process when the running top-level _request began
    spawned0,        \* the children that existed when it began
    downAtCall,      \* its first request met a dead server with auto_start on
    probe,           \* the result of the last health probe of the running _request
    allFound,        \* every start_server so far found the health probe succeeding
    sawIdle,         \* wait_for_completion: a poll has observed "idle"
    nFetch,          \* wait_for_completion: get_messages calls made
    health,          \* the last call of is_server_running: the probe and its result
    captured,        \* what communicate() returned for the exited child
    qt,              \* quick_task: its position ("none" outside quick_task)
    srv              \* the server's side of the session quick_task created

cfgVars == <<auto_start, server_timeout>>
childVars == <<proc, sig>>
callerVars == <<scope, op, pc, outcome>>
reqVars == <<args, depth, ret, resp>>
reqHist == <<nStart, nHttp, sent, downAtCall, probe, proc0, spawned0, health, captured>>
waitVars == <<elapsed, timeout, session_id, sawIdle, nFetch>>
quickVars == <<qt, srv>>

vars ==
    <<auto_start, server_timeout, server_process, proc, sig, scope, op, pc,
      outcome, stop_ret, args, depth, ret, resp, waited, elapsed, timeout,
      session_id, nStart, nHttp, sent, proc0, spawned0, downAtCall, probe,
      allFound, sawIdle, nFetch, health, captured, qt, srv>>

NoResp == [status |-> 0, body |-> EmptyBody]

Spawned == {c \in Children : proc[c] # "none"}

Running == {c \in Children : proc[c] = "running"}

\* The server knows no session of quick_task.
NoSession == [phase |-> "none", msgs |-> <<>>]

\* The status the server reports for the session: busy while it works on a
\* prompt, idle before it has begun and after it has replied.
SrvStatus == IF srv.phase = "busy" THEN "busy" ELSE "idle"

\* The prompt of quick_task as the server stores it, and a reply to it.
UserMessage == [role |-> "user", parts |-> <<[type |-> "text", text |-> <<"a">>]>>]

Replies ==
    {[role |-> "assistant", parts |-> p] :
        p \in {<<[type |-> "text", text |-> <<"a">>]>>,
               <<[type |-> "text", text |-> <<"b">>]>>,
               <<[type |-> "text", text |-> <<"b">>],
                 [type |-> "tool", text |-> <<>>],
                 [type |-> "text", text |-> <<"a">>]>>}}

\* What the server answers to the running request of quick_task.
QuickAnswer ==
    CASE args.path = "/session" ->
           [status |-> 200, body |-> Body(JDict(EmptyMap))]
      [] args.path = "/session/{id}/prompt_async" ->
           [status |-> 204, body |-> EmptyBody]
      [] args.path = "/session/status" ->
           [status |-> 200, body |-> Body(JDict([s \in {"s1"} |-> SrvStatus]))]
      [] OTHER ->
           [status |-> 200, body |-> Body(JList(srv.msgs))]

\* Before the constructor runs: its parameters are chosen, nothing exists.
Init ==
    /\ auto_start \in BOOLEAN
    /\ server_timeout = MaxServerTimeout
    /\ server_process = 0
    /\ proc = [c \in Children |-> "none"]
    /\ sig = [c \in Children |-> {}]
    /\ scope = "none"
    /\ op = "none"
    /\ pc = "idle"
    /\ outcome = NoOutcome
    /\ stop_ret = "none"
    /\ args = NoArgs
    /\ depth = 0
    /\ ret = JNull
    /\ resp = NoResp
    /\ waited = 0
    /\ elapsed = 0
    /\ timeout = 0
    /\ session_id = ""
    /\ nStart = 0
    /\ nHttp = 0
    /\ sent = <<>>
    /\ proc0 = 0
    /\ spawned0 = {}
    /\ downAtCall = FALSE
    /\ probe = "none"
    /\ allFound = TRUE
    /\ sawIdle = FALSE
    /\ nFetch = 0
    /\ health = NoHealth
    /\ captured = NoCapture
    /\ qt = "none"
    /\ srv = NoSession

\* A public operation ends with outcome o: control is back at the caller and
\* the locals of wait_for_completion are gone.  A constructor that raises never
\* enters the with-block.
Finish(o) ==
    /\ outcome' = o
    /\ elapsed' = 0
    /\ timeout' = 0
    /\ session_id' = ""
    /\ pc' = "idle"
    /\ op' = "none"
    /\ scope' = IF op = "ctor"
                THEN (IF o.kind = "raise" THEN "ctor_failed" ELSE "in")
                ELSE scope

\* A public operation begins.
Begin(o) ==
    /\ op' = o
    /\ outcome' = NoOutcome

\* A top-level call of _request(a) begins.
RequestStart(a) ==
    /\ args' = a
    /\ depth' = 0
    /\ ret' = JNull
    /\ resp' = NoResp
    /\ nStart' = 0
    /\ nHttp' = 0
    /\ sent' = <<>>
    /\ downAtCall' = FALSE
    /\ probe' = "none"
    /\ proc0' = server_process
    /\ spawned0' = Spawned
    /\ health' = NoHealth
    /\ captured' = NoCapture
    /\ pc' = "req_send"

\* No _request is running: its variables hold their defaults.
ResetReq ==
    /\ args' = NoArgs
    /\ depth' = 0
    /\ ret' = JNull
    /\ resp' = NoResp
    /\ nStart' = 0
    /\ nHttp' = 0
    /\ sent' = <<>>
    /\ downAtCall' = FALSE
    /\ probe' = "none"
    /\ proc0' = 0
    /\ spawned0' = {}
    /\ health' = NoHealth
    /\ captured' = NoCapture

\* No wait_for_completion is running: its variables hold their defaults.
ResetWait ==
    /\ elapsed' = 0
    /\ timeout' = 0
    /\ session_id' = ""
    /\ sawIdle' = FALSE
    /\ nFetch' = 0

\* ------------------------------------------------------ lifecycle actions
\* __init__, lines 62-75 (followed by __enter__ when nothing is to be started).
Construct ==
    /\ scope = "none"
    /\ server_process' = 0
    /\ proc0' = 0
    /\ spawned0' = {}
    /\ IF auto_start
       THEN \E h \in HealthOutcomes :
               LET r == IsServerRunning(h)
               IN  /\ health' = Health(h)
                   /\ IF r.exc # ""
                      THEN /\ scope' = "ctor_failed"
                           /\ op' = "none"
                           /\ pc' = "idle"
                           /\ outcome' = Raised("ctor", r.exc, <<>>)
                      ELSE IF ~r.up
                      THEN /\ scope' = "constructing"
                           /\ op' = "ctor"
                           /\ pc' = "ss_entry"
                           /\ outcome' = NoOutcome
                      ELSE /\ scope' = "in"
                           /\ op' = "none"
                           /\ pc' = "idle"
                           /\ outcome' = Returned("ctor", JNull)
       ELSE /\ health' = NoHealth
            /\ scope' = "in"
            /\ op' = "none"
            /\ pc' = "idle"
            /\ outcome' = Returned("ctor", JNull)
    /\ UNCHANGED <<auto_start, server_timeout, proc, sig, stop_ret, args, depth,
                   ret, resp, waited, elapsed, timeout, session_id, nStart,
                   nHttp, sent, downAtCall, probe, allFound, sawIdle, nFetch,
                   captured, qt, srv>>

\* The caller calls start_server() itself.
StartServer ==
    /\ scope = "in"
    /\ pc = "idle"
    /\ Begin("start_server")
    /\ ResetReq
    /\ ResetWait
    /\ stop_ret' = "none"
    /\ pc' = "ss_entry"
    /\ UNCHANGED <<auto_start, server_timeout, server_process, proc, sig, scope,
                   waited, allFound, qt, srv>>

\* Mutant of StartReturnsTrue: after start_server, _request returns None
\* instead of issuing the request again.
StartReturnsWithoutRetry ==
    /\ Finish(Returned(op, IF op = "start_server" THEN JBool(TRUE) ELSE JNull))
    /\ depth' = depth

\* start_server returns True: to the constructor, to the caller, or into the
\* retry of _request (line 200), which is a recursive call.
StartReturnsTrue ==
    IF op \in {"ctor", "start_server"}
    THEN /\ Finish(Returned(op, IF op = "ctor" THEN JNull ELSE JBool(TRUE)))
         /\ depth' = depth
    ELSE /\ pc' = "req_send"
         /\ depth' = depth + 1
         /\ UNCHANGED <<outcome, op, scope, elapsed, timeout, session_id>>

\* Mutant of StartServerProbe: the result of the probe is ignored and a child
\* is spawned even though a server answers.
StartServerProbeSpawnsAnyway ==
    /\ pc = "ss_entry"
    /\ \E h \in HealthOutcomes :
          LET r == IsServerRunning(h)
          IN  /\ health' = Health(h)
              /\ IF r.exc # ""
                 THEN /\ Finish(Raised(op, r.exc, <<>>))
                      /\ depth' = depth
                      /\ allFound' = FALSE
                 ELSE /\ pc' = "ss_spawn"
                      /\ allFound' = (allFound /\ r.up)
                      /\ UNCHANGED <<outcome, op, scope, depth, elapsed, timeout,
                                     session_id>>
    /\ server_process' = server_process
    /\ UNCHANGED <<auto_start, server_timeout, proc, sig, stop_ret, args, ret,
                   resp, waited, nStart, nHttp, sent, proc0, spawned0,
                   downAtCall, probe, sawIdle, nFetch, captured, qt, srv>>

\* Mutant of StartServerProbe: a start_server that finds a server running
\* forgets the handle it held.
StartServerProbeForgetsHandle ==
    /\ pc = "ss_entry"
    /\ \E h \in HealthOutcomes :
          LET r == IsServerRunning(h)
          IN  /\ health' = Health(h)
              /\ IF r.exc # ""
                 THEN /\ Finish(Raised(op, r.exc, <<>>))
                      /\ depth' = depth
                      /\ allFound' = FALSE
                      /\ server_process' = server_process
                 ELSE IF r.up
                 THEN /\ StartReturnsTrue
                      /\ allFound' = allFound
                      /\ server_process' = 0
                 ELSE /\ pc' = "ss_spawn"
                      /\ allFound' = FALSE
                      /\ server_process' = server_process
                      /\ UNCHANGED <<outcome, op, scope, depth, elapsed, timeout,
                                     session_id>>
    /\ UNCHANGED <<auto_start, server_timeout, proc, sig, stop_ret, args, ret,
                   resp, waited, nStart, nHttp, sent, proc0, spawned0,
                   downAtCall, probe, sawIdle, nFetch, captured, qt, srv>>

\* start_server, lines 104-108: the probe that decides whether to spawn.  It
\* stands before the try: what is_server_running lets out leaves start_server
\* as it is.
StartServerProbe ==
    /\ pc = "ss_entry"
    /\ \E h \in HealthOutcomes :
          LET r == IsServerRunning(h)
          IN  /\ health' = Health(h)
              /\ IF r.exc # ""
                 THEN /\ Finish(Raised(op, r.exc, <<>>))
                      /\ depth' = depth
                      /\ allFound' = FALSE
                 ELSE IF r.up
                 THEN /\ StartReturnsTrue
                      /\ allFound' = allFound
                 ELSE /\ pc' = "ss_spawn"
                      /\ allFound' = FALSE
                      /\ UNCHANGED <<outcome, op, scope, depth, elapsed, timeout,
                                     session_id>>
    /\ server_process' = server_process
    /\ UNCHANGED <<auto_start, server_timeout, proc, sig, stop_ret, args, ret,
                   resp, waited, nStart, nHttp, sent, proc0, spawned0,
                   downAtCall, probe, sawIdle, nFetch, captured, qt, srv>>

\* start_server, lines 110-121 and 140-145: Popen creates the child and the
\* handle is stored, or Popen raises and the handle keeps its value.
StartServerSpawn ==
    /\ pc = "ss_spawn"
    /\ \/ /\ Cardinality(Spawned) < MaxChildren
          /\ LET c == Cardinality(Spawned) + 1
             IN  /\ proc' = [proc EXCEPT ![c] = "running"]
                 /\ server_process' = c
          /\ waited' = 0
          /\ pc' = "ss_wait"
          /\ UNCHANGED <<outcome, op, scope, elapsed, timeout, session_id>>
       \/ /\ \E m \in {<<"OpenCode not found">>, <<"Failed to start server">>} :
                Finish(Raised(op, "ServerNotRunningError", m))
          /\ UNCHANGED <<proc, server_process, waited>>
    /\ UNCHANGED <<auto_start, server_timeout, sig, stop_ret, args, depth, ret,
                   resp, nStart, nHttp, sent, proc0, spawned0, downAtCall,
                   probe, allFound, sawIdle, nFetch, health, captured, qt, srv>>

\* start_server, lines 125-138 and 144-145: one iteration of the startup loop
\* (probe, then sleep), or the end of the loop.  The error raised inside the
\* try is caught by "except Exception" and raised again, wrapped.
StartServerWait ==
    /\ pc = "ss_wait"
    /\ IF waited < server_timeout
       THEN \E h \in HealthOutcomes :
               LET r == IsServerRunning(h)
               IN  /\ health' = Health(h)
                   /\ captured' = captured
                   /\ IF r.exc # ""
                      THEN /\ Finish(Raised(op, "ServerNotRunningError",
                                            <<"Failed to start server", r.exc>>))
                           /\ waited' = 0
                           /\ depth' = depth
                      ELSE IF r.up
                      THEN /\ StartReturnsTrue
                           /\ waited' = 0
                      ELSE /\ waited' = waited + 1
                           /\ UNCHANGED <<outcome, pc, op, scope, depth, elapsed,
                                          timeout, session_id>>
       ELSE /\ IF proc[server_process] # "running"
               THEN \E so, se \in ByteStrings :
                       /\ captured' = [stdout |-> so, stderr |-> se]
                       /\ Finish(Raised(op, "ServerNotRunningError",
                                        ExitedEarlyMessage(so, se)))
               ELSE /\ captured' = captured
                    /\ Finish(Raised(op, "ServerNotRunningError",
                          <<"Failed to start server",
                            "Server failed to respond within timeout period">>))
            /\ health' = health
            /\ waited' = 0
            /\ depth' = depth
    /\ UNCHANGED <<auto_start, server_timeout, server_process, proc, sig,
                   stop_ret, args, ret, resp, nStart, nHttp, sent, proc0,
                   spawned0, downAtCall, probe, allFound, sawIdle, nFetch, qt,
                   srv>>

\* A running child exits by itself.
ChildExits ==
    /\ scope # "left"
    /\ \E c \in Running : proc' = [proc EXCEPT ![c] = "exited"]
    /\ UNCHANGED <<auto_start, server_timeout, server_process, sig, scope, op,
                   pc, outcome, stop_ret, args, depth, ret, resp, waited,
                   elapsed, timeout, session_id, nStart, nHttp, sent, proc0,
                   spawned0, downAtCall, probe, allFound, sawIdle, nFetch,
                   health, captured, qt, srv>>

\* Mutant of StopServerBody: poll() is not consulted, a handle is enough.
StopServerWithoutPoll(graceful) ==
    IF server_process # 0
    THEN /\ sig' = [sig EXCEPT ![server_process] =
                      @ \cup (IF graceful THEN {"terminate"} ELSE {"terminate", "kill"})]
         /\ proc' = [proc EXCEPT ![server_process] = "exited"]
         /\ stop_ret' = "True"
    ELSE /\ stop_ret' = "False"
         /\ UNCHANGED <<sig, proc>>

\* stop_server, lines 149-162.  graceful: the child exits within wait(timeout=5);
\* otherwise wait raises TimeoutExpired and the child is killed.
StopServerBody(graceful) ==
    IF server_process # 0 /\ proc[server_process] = "running"
    THEN /\ sig' = [sig EXCEPT ![server_process] =
                      @ \cup (IF graceful THEN {"terminate"} ELSE {"terminate", "kill"})]
         /\ proc' = [proc EXCEPT ![server_process] = "exited"]
         /\ stop_ret' = "True"
    ELSE /\ stop_ret' = "False"
         /\ UNCHANGED <<sig, proc>>

\* The caller calls stop_server() itself.
StopServer ==
    /\ scope = "in"
    /\ pc = "idle"
    /\ \E graceful \in BOOLEAN : StopServerBody(graceful)
    /\ outcome' = Returned("stop_server", JBool(stop_ret' = "True"))
    /\ pc' = "idle"
    /\ ResetReq
    /\ ResetWait
    /\ UNCHANGED <<auto_start, server_timeout, server_process, scope, op,
                   waited, allFound, qt, srv>>

\* __exit__, lines 386-388: the with-block is left, by return or by exception.
Exit ==
    /\ scope = "in"
    /\ pc = "idle"
    /\ \E graceful \in BOOLEAN : StopServerBody(graceful)
    /\ scope' = "left"
    /\ ResetReq
    /\ ResetWait
    /\ pc' = "idle"
    /\ UNCHANGED <<auto_start, server_timeout, server_process, op, outcome,
                   waited, allFound, qt, srv>>

\* -------------------------------------------------------------- _request
\* create_session, send_async, delete_session: one _request each.
Invoke ==
    /\ scope = "in"
    /\ pc = "idle"
    /\ \E o \in {"create_session", "send_async", "delete_session"} :
          /\ Begin(o)
          /\ RequestStart(CallArgs(o, "s1"))
    /\ ResetWait
    /\ stop_ret' = "none"
    /\ UNCHANGED <<auto_start, server_timeout, server_process, proc, sig, scope,
                   waited, allFound, qt, srv>>

\* get_session_status, is_session_idle: one _request for the status map.
InvokeStatus ==
    /\ scope = "in"
    /\ pc = "idle"
    /\ \E o \in {"get_session_status", "is_session_idle"} : Begin(o)
    /\ RequestStart(CallArgs("get_session_status", ""))
    /\ session_id' = "s1"
    /\ elapsed' = 0
    /\ timeout' = 0
    /\ sawIdle' = FALSE
    /\ nFetch' = 0
    /\ stop_ret' = "none"
    /\ UNCHANGED <<auto_start, server_timeout, server_process, proc, sig, scope,
                   waited, allFound, qt, srv>>

\* What the caller of _request does with the value v it returns.
ReturnTo(v) ==
    CASE op = "wait_for_completion" /\ args.path = "/session/status" ->
           /\ pc' = "wfc_status"
           /\ UNCHANGED <<outcome, op, scope, elapsed, timeout, session_id>>
      [] op = "wait_for_completion" /\ args.path # "/session/status" ->
           Finish(Returned(op, JStr(LastAssistantText(GetMessages(v)))))
      [] op = "delete_session" -> Finish(Returned(op, DeleteResult(v)))
      [] op = "send_async" -> Finish(Returned(op, JNull))
      [] op = "get_session_status" ->
           Finish(Returned(op, JStr(<<GetSessionStatus(v, session_id)>>)))
      [] op = "is_session_idle" ->
           Finish(Returned(op, JBool(IsSessionIdle(v, session_id))))
      [] OTHER -> Finish(Returned(op, v))

\* _request, lines 176-194: the server answers; lists bounds the message lists
\* it may answer get_messages with.
RequestResponds(lists) ==
    /\ pc = "req_send"
    /\ \E status \in Statuses :
       \E body \in BodiesFor(status, args.path, lists) :
          LET r == RequestResult(op, status, body)
          IN  /\ resp' = [status |-> status, body |-> body]
              /\ IF r.kind = "raise"
                 THEN /\ Finish(r)
                      /\ ret' = ret
                 ELSE /\ ret' = r.value
                      /\ ReturnTo(r.value)
    /\ nHttp' = nHttp + 1
    /\ sent' = Append(sent, args)
    /\ UNCHANGED <<auto_start, server_timeout, server_process, proc, sig,
                   stop_ret, args, depth, waited, nStart, proc0, spawned0,
                   downAtCall, probe, allFound, sawIdle, nFetch, health,
                   captured, qt, srv>>

Responds == RequestResponds(SampleLists)

RespondsAnyMessages == RequestResponds(MsgLists)

\* _request, lines 176-182: a read timeout is no ConnectionError and escapes.
RequestTimesOut ==
    /\ pc = "req_send"
    /\ nHttp' = nHttp + 1
    /\ sent' = Append(sent, args)
    /\ Finish(Raised(op, "Timeout", <<>>))
    /\ UNCHANGED <<auto_start, server_timeout, server_process, proc, sig,
                   stop_ret, args, depth, ret, resp, waited, nStart, proc0,
                   spawned0, downAtCall, probe, allFound, sawIdle, nFetch,
                   health, captured, qt, srv>>

\* _request, lines 176-182 and 196: the request raises ConnectionError.
RequestConnectionError ==
    /\ pc = "req_send"
    /\ depth < MaxDepth
    /\ nHttp' = nHttp + 1
    /\ sent' = Append(sent, args)
    /\ pc' = "req_except"
    /\ UNCHANGED <<auto_start, server_timeout, server_process, proc, sig, scope,
                   op, outcome, stop_ret, args, depth, ret, resp, waited,
                   elapsed, timeout, session_id, nStart, proc0, spawned0,
                   downAtCall, probe, allFound, sawIdle, nFetch, health,
                   captured, qt, srv>>

\* Mutant of RequestExcept: the health probe is made but not consulted, so
\* start_server and the retry run whenever auto_start is on.
RequestExceptIgnoresProbe ==
    /\ pc = "req_except"
    /\ IF auto_start
       THEN \E h \in HealthOutcomes :
               LET r == IsServerRunning(h)
               IN  /\ health' = Health(h)
                   /\ IF r.exc # ""
                      THEN /\ probe' = "raised"
                           /\ Finish(Raised(op, r.exc, <<>>))
                           /\ UNCHANGED <<nStart, downAtCall>>
                      ELSE /\ probe' = IF r.up THEN "up" ELSE "down"
                           /\ nStart' = nStart + 1
                           /\ downAtCall' = (downAtCall \/ depth = 0)
                           /\ pc' = "ss_entry"
                           /\ UNCHANGED <<outcome, op, scope, elapsed, timeout,
                                          session_id>>
       ELSE /\ probe' = "none"
            /\ health' = health
            /\ Finish(Raised(op, "OpenCodeError",
                             <<"Cannot connect to OpenCode server">>))
            /\ UNCHANGED <<nStart, downAtCall>>
    /\ UNCHANGED <<auto_start, server_timeout, server_process, proc, sig,
                   stop_ret, args, depth, ret, resp, waited, nHttp, sent, proc0,
                   spawned0, allFound, sawIdle, nFetch, captured, qt, srv>>

\* Mutant of RequestExcept: the handle is dropped when the call gives up.
RequestExceptDropsHandle ==
    /\ pc = "req_except"
    /\ IF auto_start
       THEN \E h \in HealthOutcomes :
               LET r == IsServerRunning(h)
               IN  /\ health' = Health(h)
                   /\ IF r.exc # ""
                      THEN /\ probe' = "raised"
                           /\ Finish(Raised(op, r.exc, <<>>))
                           /\ UNCHANGED <<nStart, downAtCall, server_process>>
                      ELSE IF ~r.up
                      THEN /\ probe' = "down"
                           /\ nStart' = nStart + 1
                           /\ downAtCall' = (downAtCall \/ depth = 0)
                           /\ pc' = "ss_entry"
                           /\ UNCHANGED <<outcome, op, scope, elapsed, timeout,
                                          session_id, server_process>>
                      ELSE /\ probe' = "up"
                           /\ Finish(Raised(op, "OpenCodeError",
                                            <<"Cannot connect to OpenCode server">>))
                           /\ server_process' = 0
                           /\ UNCHANGED <<nStart, downAtCall>>
       ELSE /\ probe' = "none"
            /\ health' = health
            /\ Finish(Raised(op, "OpenCodeError",
                             <<"Cannot connect to OpenCode server">>))
            /\ server_process' = 0
            /\ UNCHANGED <<nStart, downAtCall>>
    /\ UNCHANGED <<auto_start, server_timeout, proc, sig, stop_ret, args, depth,
                   ret, resp, waited, nHttp, sent, proc0, spawned0, allFound,
                   sawIdle, nFetch, captured, qt, srv>>

\* _request, lines 196-201: the handler of ConnectionError.  What
\* is_server_running lets out inside the handler leaves _request as it is.
RequestExcept ==
    /\ pc = "req_except"
    /\ IF auto_start
       THEN \E h \in HealthOutcomes :
               LET r == IsServerRunning(h)
               IN  /\ health' = Health(h)
                   /\ IF r.exc # ""
                      THEN /\ probe' = "raised"
                           /\ Finish(Raised(op, r.exc, <<>>))
                           /\ UNCHANGED <<nStart, downAtCall>>
                      ELSE IF ~r.up
                      THEN /\ probe' = "down"
                           /\ nStart' = nStart + 1
                           /\ downAtCall' = (downAtCall \/ depth = 0)
                           /\ pc' = "ss_entry"
                           /\ UNCHANGED <<outcome, op, scope, elapsed, timeout,
                                          session_id>>
                      ELSE /\ probe' = "up"
                           /\ Finish(Raised(op, "OpenCodeError",
                                            <<"Cannot connect to OpenCode server">>))
                           /\ UNCHANGED <<nStart, downAtCall>>
       ELSE /\ probe' = "none"
            /\ health' = health
            /\ Finish(Raised(op, "OpenCodeError",
                             <<"Cannot connect to OpenCode server">>))
            /\ UNCHANGED <<nStart, downAtCall>>
    /\ UNCHANGED <<auto_start, server_timeout, server_process, proc, sig,
                   stop_ret, args, depth, ret, resp, waited, nHttp, sent, proc0,
                   spawned0, allFound, sawIdle, nFetch, captured, qt, srv>>

\* ---------------------------------------------------- wait_for_completion
\* wait_for_completion, line 352.
WaitForCompletion ==
    /\ scope = "in"
    /\ pc = "idle"
    /\ \E sid \in Sessions, t \in 0..MaxWait :
          /\ session_id' = sid
          /\ timeout' = t
    /\ Begin("wait_for_completion")
    /\ ResetReq
    /\ elapsed' = 0
    /\ sawIdle' = FALSE
    /\ nFetch' = 0
    /\ stop_ret' = "none"
    /\ pc' = "wfc_loop"
    /\ UNCHANGED <<auto_start, server_timeout, server_process, proc, sig, scope,
                   waited, allFound, qt, srv>>

\* wait_for_completion, lines 354-355 and 369: the loop test, then the status
\* poll or the TimeoutError.
WfcLoop ==
    /\ pc = "wfc_loop"
    /\ IF elapsed < timeout
       THEN /\ RequestStart(CallArgs("get_session_status", session_id))
            /\ UNCHANGED <<outcome, op, scope, elapsed, timeout, session_id>>
       ELSE /\ Finish([Raised(op, "TimeoutError",
                              <<"Session", "did not complete within", "seconds">>)
                          EXCEPT !.sid = session_id, !.seconds = timeout])
            /\ UNCHANGED <<args, depth, ret, resp, nStart, nHttp, sent, downAtCall,
                           probe, proc0, spawned0, health, captured>>
    /\ UNCHANGED <<auto_start, server_timeout, server_process, proc, sig,
                   stop_ret, waited, allFound, sawIdle, nFetch, qt, srv>>

\* Mutant of WfcStatus: every status but "busy" counts as completion.
WfcStatusNotBusy ==
    /\ pc = "wfc_status"
    /\ IF GetSessionStatus(ret, session_id) # "busy"
       THEN /\ sawIdle' = (sawIdle \/ GetSessionStatus(ret, session_id) = "idle")
            /\ nFetch' = nFetch + 1
            /\ RequestStart(CallArgs("get_messages", session_id))
            /\ elapsed' = elapsed
       ELSE /\ elapsed' = elapsed + 1
            /\ pc' = "wfc_loop"
            /\ ResetReq
            /\ UNCHANGED <<sawIdle, nFetch>>
    /\ UNCHANGED <<auto_start, server_timeout, server_process, proc, sig, scope,
                   op, outcome, stop_ret, waited, timeout, session_id, allFound,
                   qt, srv>>

\* wait_for_completion, lines 355-367: the status record is projected; "idle"
\* leads to get_messages(session_id, limit=10), anything else to the sleep.
WfcStatus ==
    /\ pc = "wfc_status"
    /\ IF GetSessionStatus(ret, session_id) = "idle"
       THEN /\ sawIdle' = TRUE
            /\ nFetch' = nFetch + 1
            /\ RequestStart(CallArgs("get_messages", session_id))
            /\ elapsed' = elapsed
       ELSE /\ elapsed' = elapsed + 1
            /\ pc' = "wfc_loop"
            /\ ResetReq
            /\ UNCHANGED <<sawIdle, nFetch>>
    /\ UNCHANGED <<auto_start, server_timeout, server_process, proc, sig, scope,
                   op, outcome, stop_ret, waited, timeout, session_id, allFound,
                   qt, srv>>

\* ------------------------------------------------------------- quick_task
\* quick_task, lines 411-412: inside the with-block, create_session.
QuickCreate ==
    /\ qt = "entered"
    /\ scope = "in"
    /\ pc = "idle"
    /\ Begin("create_session")
    /\ RequestStart(CallArgs("create_session", ""))
    /\ ResetWait
    /\ stop_ret' = "none"
    /\ qt' = "create"
    /\ UNCHANGED <<auto_start, server_timeout, server_process, proc, sig, scope,
                   waited, allFound, srv>>

\* quick_task, line 413: send_async(session["id"], message).
QuickSend ==
    /\ qt = "create"
    /\ scope = "in"
    /\ pc = "idle"
    /\ outcome.kind = "return"
    /\ Begin("send_async")
    /\ RequestStart(CallArgs("send_async", "s1"))
    /\ ResetWait
    /\ stop_ret' = "none"
    /\ qt' = "send"
    /\ UNCHANGED <<auto_start, server_timeout, server_process, proc, sig, scope,
                   waited, allFound, srv>>

\* quick_task, line 414: wait_for_completion(session["id"], timeout=timeout).
QuickWait ==
    /\ qt = "send"
    /\ scope = "in"
    /\ pc = "idle"
    /\ outcome.kind = "return"
    /\ \E t \in 0..MaxWait : timeout' = t
    /\ session_id' = "s1"
    /\ Begin("wait_for_completion")
    /\ ResetReq
    /\ elapsed' = 0
    /\ sawIdle' = FALSE
    /\ nFetch' = 0
    /\ stop_ret' = "none"
    /\ pc' = "wfc_loop"
    /\ qt' = "wait"
    /\ UNCHANGED <<auto_start, server_timeout, server_process, proc, sig, scope,
                   waited, allFound, srv>>

\* quick_task, lines 411-414 and 386-388: the with-block is left, by the
\* return of wait_for_completion or by an exception; its outcome is the
\* outcome of quick_task.
QuickExit ==
    /\ qt \in {"create", "send", "wait"}
    /\ scope = "in"
    /\ pc = "idle"
    /\ (qt = "wait" \/ outcome.kind = "raise")
    /\ \E graceful \in BOOLEAN : StopServerBody(graceful)
    /\ scope' = "left"
    /\ qt' = "done"
    /\ UNCHANGED <<auto_start, server_timeout, server_process, op, pc, outcome,
                   args, depth, ret, resp, waited, elapsed, timeout, session_id,
                   nStart, nHttp, sent, proc0, spawned0, downAtCall, probe,
                   allFound, sawIdle, nFetch, health, captured, srv>>

\* The server answers the running request of quick_task: it creates the
\* session, accepts the prompt (the work on it begins later), reports the
\* session's status, lists its messages.
ServerResponds ==
    /\ pc = "req_send"
    /\ LET a == QuickAnswer
           r == RequestResult(op, a.status, a.body)
       IN  /\ resp' = a
           /\ IF r.kind = "raise"
              THEN /\ Finish(r)
                   /\ ret' = ret
              ELSE /\ ret' = r.value
                   /\ ReturnTo(r.value)
    /\ srv' = CASE args.path = "/session" -> [phase |-> "idle", msgs |-> <<>>]
                [] args.path = "/session/{id}/prompt_async" ->
                     [srv EXCEPT !.phase = "queued"]
                [] OTHER -> srv
    /\ nHttp' = nHttp + 1
    /\ sent' = Append(sent, args)
    /\ UNCHANGED <<auto_start, server_timeout, server_process, proc, sig,
                   stop_ret, args, depth, waited, nStart, proc0, spawned0,
                   downAtCall, probe, allFound, sawIdle, nFetch, health,
                   captured, qt>>

\* The server begins to work on the prompt it accepted.
ServerBegins ==
    /\ srv.phase = "queued"
    /\ srv' = [phase |-> "busy", msgs |-> Append(srv.msgs, UserMessage)]
    /\ UNCHANGED <<auto_start, server_timeout, server_process, proc, sig, scope,
                   op, pc, outcome, stop_ret, args, depth, ret, resp, waited,
                   elapsed, timeout, session_id, nStart, nHttp, sent, proc0,
                   spawned0, downAtCall, probe, allFound, sawIdle, nFetch,
                   health, captured, qt>>

\* The server finishes the work: the assistant's reply is stored.
ServerCompletes ==
    /\ srv.phase = "busy"
    /\ \E m \in Replies :
          srv' = [phase |-> "done", msgs |-> Append(srv.msgs, m)]
    /\ UNCHANGED <<auto_start, server_timeout, server_process, proc, sig, scope,
                   op, pc, outcome, stop_ret, args, depth, ret, resp, waited,
                   elapsed, timeout, session_id, nStart, nHttp, sent, proc0,
                   spawned0, downAtCall, probe, allFound, sawIdle, nFetch,
                   health, captured, qt>>

\* ---------------------------------------------------------- specifications
Next ==
    \/ Construct
    \/ StartServer
    \/ StartServerProbe
    \/ StartServerSpawn
    \/ StartServerWait
    \/ ChildExits
    \/ StopServer
    \/ Exit
    \/ Invoke
    \/ InvokeStatus
    \/ Responds
    \/ RequestTimesOut
    \/ RequestConnectionError
    \/ RequestExcept
    \/ WaitForCompletion
    \/ WfcLoop
    \/ WfcStatus

Spec == Init /\ [][Next]_vars

\* The poller alone, on a controller constructed with auto_start=False (the
\* state Construct leaves then), with every message list within the bounds.
InitWait ==
    /\ auto_start = FALSE
    /\ server_timeout = MaxServerTimeout
    /\ server_process = 0
    /\ proc = [c \in Children |-> "none"]
    /\ sig = [c \in Children |-> {}]
    /\ scope = "in"
    /\ op = "none"
    /\ pc = "idle"
    /\ outcome = Returned("ctor", JNull)
    /\ stop_ret = "none"
    /\ args = NoArgs
    /\ depth = 0
    /\ ret = JNull
    /\ resp = NoResp
    /\ waited = 0
    /\ elapsed = 0
    /\ timeout = 0
    /\ session_id = ""
    /\ nStart = 0
    /\ nHttp = 0
    /\ sent = <<>>
    /\ proc0 = 0
    /\ spawned0 = {}
    /\ downAtCall = FALSE
    /\ probe = "none"
    /\ allFound = TRUE
    /\ sawIdle = FALSE
    /\ nFetch = 0
    /\ health = NoHealth
    /\ captured = NoCapture
    /\ qt = "none"
    /\ srv = NoSession

NextWait ==
    \/ WaitForCompletion
    \/ WfcLoop
    \/ WfcStatus
    \/ RespondsAnyMessages
    \/ RequestTimesOut
    \/ RequestConnectionError
    \/ RequestExcept

WaitSpec == InitWait /\ [][NextWait]_vars

\* quick_task against a server that answers every request, from the state
\* its constructor leaves when the health probe found the server (auto_start
\* is on by default), the with-block just entered.
InitQuick ==
    /\ auto_start = TRUE
    /\ server_timeout = MaxServerTimeout
    /\ server_process = 0
    /\ proc = [c \in Children |-> "none"]
    /\ sig = [c \in Children |-> {}]
    /\ scope = "in"
    /\ op = "none"
    /\ pc = "idle"
    /\ outcome = Returned("ctor", JNull)
    /\ stop_ret = "none"
    /\ args = NoArgs
    /\ depth = 0
    /\ ret = JNull
    /\ resp = NoResp
    /\ waited = 0
    /\ elapsed = 0
    /\ timeout = 0
    /\ session_id = ""
    /\ nStart = 0
    /\ nHttp = 0
    /\ sent = <<>>
    /\ proc0 = 0
    /\ spawned0 = {}
    /\ downAtCall = FALSE
    /\ probe = "none"
    /\ allFound = TRUE
    /\ sawIdle = FALSE
    /\ nFetch = 0
    /\ health = Health([exc |-> "", status |-> 200])
    /\ captured = NoCapture
    /\ qt = "entered"
    /\ srv = NoSession

NextQuick ==
    \/ QuickCreate
    \/ QuickSend
    \/ QuickWait
    \/ QuickExit
    \/ ServerResponds
    \/ ServerBegins
    \/ ServerCompletes
    \/ WfcLoop
    \/ WfcStatus

QuickSpec == InitQuick /\ [][NextQuick]_vars

\* ------------------------------------------------------------------ claims
\* The operations that are one _request each, and those that make any.
SimpleOps == {"create_session", "send_async", "delete_session"}

RequestOps == SimpleOps \cup {"wait_for_completion"}

\* The last public operation is over and control is back at the caller.
Finished == pc = "idle" /\ scope = "in" /\ outcome.kind # "none"

\* C1: one top-level call of _request invokes start_server at most once and
\* issues the HTTP request at most twice, however the server goes up and down.
C1_AtMostOneRetry == nStart <= 1 /\ nHttp <= 2

\* C2: once the with-block has been left, no child this controller spawned is
\* still running.
C2_NoChildOutlivesScope == scope = "left" => Running = {}

\* C3: _request meets a connection error and auto_start is off or the health
\* probe succeeds: the handler raises "Cannot connect to OpenCode server" at
\* once; start_server is not invoked, no process is spawned, the handle is
\* kept and no request is issued again.
C3_FailsImmediately ==
    [][(/\ pc = "req_except"
        /\ pc' # "req_except"
        /\ (~auto_start \/ probe' = "up"))
       => /\ pc' = "idle"
          /\ outcome'.kind = "raise"
          /\ outcome'.exc = "OpenCodeError"
          /\ outcome'.msg = <<"Cannot connect to OpenCode server">>
          /\ nStart' = nStart
          /\ nHttp' = nHttp
          /\ proc' = proc
          /\ server_process' = server_process]_vars

\* C3 happens: with auto_start on, a call failed with the error after a
\* connection error and a succeeding probe.
C3_Witness ==
    /\ auto_start
    /\ Finished
    /\ outcome.exc = "OpenCodeError"
    /\ probe = "up"
    /\ nHttp = 1

\* C4 as stated: a call made with auto_start on while the server is down
\* starts the server, issues the same request exactly once more and returns
\* the result of that retry; the caller sees no error.
C4_TransparentRetry ==
    (Finished /\ outcome.op \in SimpleOps /\ downAtCall)
    => /\ outcome.kind = "return"
       /\ nStart = 1
       /\ nHttp = 2
       /\ sent = <<args, args>>

\* What a response yields, stated from the response alone.
Yield(r) == IF r.status = 204 \/ r.body.empty THEN JNull ELSE r.body.doc

\* C4 as amended: such a call invokes start_server and only ever re-issues
\* the same request; if start_server raises, the call fails with
\* ServerNotRunningError and the request is not issued again; the call
\* returns only what a re-issued request yields; and when the first re-issue
\* gets a response, start_server ran exactly once and the call ends as that
\* response decides (its result, or its API error).
C4_RetryAfterStart ==
    downAtCall
    => /\ nStart >= 1
       /\ Len(sent) = nHttp
       /\ \A i \in DOMAIN sent : sent[i] = args
       /\ (Finished /\ outcome.op \in SimpleOps)
          => /\ (outcome.exc = "ServerNotRunningError" => nHttp = nStart)
             /\ (outcome.kind = "return" => nHttp >= 2 /\ resp.status # 0)
             /\ (nHttp = 2 /\ resp.status # 0)
                => /\ nStart = 1
                   /\ resp.status >= 400
                      => /\ outcome.exc = "OpenCodeAPIError"
                         /\ outcome.status_code = resp.status
                   /\ resp.status < 400
                      => /\ outcome.kind = "return"
                         /\ ret = Yield(resp)

\* C4 happens: create_session met a dead server, a child was spawned, and
\* the one retry returned.
C4_Witness ==
    /\ downAtCall
    /\ Finished
    /\ outcome.op = "create_session"
    /\ outcome.kind = "return"
    /\ nHttp = 2
    /\ nStart = 1
    /\ Spawned # spawned0

\* C5 as stated: stop_server returns False exactly when this controller never
\* spawned a process; when it did, stop_server returns True and the process
\* is no longer running.
C5_StopIffSpawned ==
    stop_ret # "none"
    => /\ (stop_ret = "False") <=> (Spawned = {})
       /\ Spawned # {} => proc[server_process] # "running"

\* A step that is a call of stop_server (by the caller or by __exit__): the
\* only other step at that point that leaves stop_ret set is a child's exit.
IsStopStep ==
    /\ pc = "idle"
    /\ scope = "in"
    /\ stop_ret' # "none"
    /\ (sig' # sig \/ proc' = proc)

\* C5 as amended: stop_server returns False, and signals nothing, exactly
\* when the controller holds no handle of a running process (it never spawned
\* one, or the process it holds has exited already); when the held process is
\* running, stop_server sends it the termination signal (and the kill after
\* the grace period), returns True, and the process has terminated; no other
\* process is touched.
C5_StopsHeldRunningProcess ==
    [][IsStopStep
       => LET held == server_process # 0 /\ proc[server_process] = "running"
          IN  /\ (stop_ret' = "False") <=> ~held
              /\ ~held => (sig' = sig /\ proc' = proc)
              /\ held
                 => /\ stop_ret' = "True"
                    /\ proc'[server_process] = "exited"
                    /\ "terminate" \in sig'[server_process]
                    /\ \A c \in Children \ {server_process} :
                          sig'[c] = sig[c] /\ proc'[c] = proc[c]]_vars

\* C5 happens: stop_server found the child it spawned already exited and
\* returned False without signalling it.
C5_Witness ==
    /\ stop_ret = "False"
    /\ outcome.op = "stop_server"
    /\ server_process # 0
    /\ proc[server_process] = "exited"
    /\ sig[server_process] = {}

\* C6: as long as every start_server found the health probe succeeding, the
\* controller holds no handle, has spawned nothing, has sent no signal, and
\* stop_server (also the one of __exit__) returned False.
C6_NeverTouchesFoundServer ==
    allFound
    => /\ server_process = 0
       /\ Spawned = {}
       /\ \A c \in Children : sig[c] = {}
       /\ stop_ret # "True"

\* C6 happens: start_server found a server running and returned True, and the
\* scope was then left.
C6_Witness ==
    /\ allFound
    /\ scope = "left"
    /\ outcome.op = "start_server"
    /\ outcome.kind = "return"
    /\ stop_ret = "False"

\* The errors _request lets out.
RequestErrors ==
    {"OpenCodeAPIError", "OpenCodeError", "Timeout", "ServerNotRunningError",
     "RequestException"}

\* A _request has just failed.
RequestFailed ==
    /\ Finished
    /\ outcome.op \in RequestOps
    /\ outcome.kind = "raise"
    /\ outcome.exc \in RequestErrors

\* C7 as stated: a call that fails leaves _server_process as it was when the
\* call was made, and no new child exists.
C7_FailedCallNoLocalEffect ==
    RequestFailed => (server_process = proc0 /\ Spawned = spawned0)

\* C7 as amended: a call that fails without having invoked start_server
\* leaves _server_process as it was and no new child exists.
C7_FailedCallWithoutStart ==
    (RequestFailed /\ nStart = 0) => (server_process = proc0 /\ Spawned = spawned0)

\* C7 happens: a call failed on an API error while the controller held the
\* handle of a child, and the handle is still held.
C7_Witness ==
    /\ RequestFailed
    /\ outcome.exc = "OpenCodeAPIError"
    /\ nStart = 0
    /\ server_process # 0
    /\ proc[server_process] = "running"

\* wait_for_completion is over.
WfcOver == Finished /\ outcome.op = "wait_for_completion"

\* C8: wait_for_completion returns (a string) only after a poll observed
\* "idle"; when none did, it ends by raising, having fetched no messages, and
\* unless a poll itself failed the error is TimeoutError; the TimeoutError is
\* raised at the deadline and names the session id and the timeout.
C8_TimeoutUnlessIdle ==
    /\ [](WfcOver
          => /\ outcome.kind = "return" => (sawIdle /\ outcome.value.t = "str")
             /\ ~sawIdle
                => /\ outcome.kind = "raise"
                   /\ nFetch = 0
                   /\ outcome.exc \notin RequestErrors => outcome.exc = "TimeoutError")
    /\ [][(outcome'.exc = "TimeoutError" /\ outcome.exc # "TimeoutError")
          => /\ outcome'.op = "wait_for_completion"
             /\ outcome'.sid = session_id
             /\ outcome'.seconds = timeout
             /\ elapsed >= timeout
             /\ ~sawIdle
             /\ nFetch = 0]_vars

\* C8 happens: every poll up to the longest deadline reported another status
\* and the TimeoutError was raised.
C8_Witness ==
    /\ WfcOver
    /\ outcome.exc = "TimeoutError"
    /\ outcome.seconds = MaxWait
    /\ outcome.sid = "s2"
    /\ ~sawIdle

\* The text of the most recent assistant message, stated from the list: the
\* assistant message of greatest index, its text parts in order, a newline
\* between consecutive ones.
ExpectedText(msgs) ==
    LET idx == {i \in DOMAIN msgs : msgs[i].role = "assistant"}
    IN  IF idx = {} THEN <<>>
        ELSE LET last == CHOOSE i \in idx : \A j \in idx : j <= i
                 texts == SelectSeq(msgs[last].parts, LAMBDA p : p.type = "text")
                 acc[k \in 0..Len(texts)] ==
                     IF k = 0 THEN <<>>
                     ELSE IF k = 1 THEN texts[1].text
                     ELSE acc[k - 1] \o <<"\n">> \o texts[k].text
             IN  acc[Len(texts)]

\* C9: once a poll observed "idle" and get_messages was answered,
\* wait_for_completion returns the text of the most recent assistant message
\* of the list (the empty string when there is none, or when the answer is
\* no list), and raises nothing.
C9_LastAssistantText ==
    (WfcOver /\ sawIdle /\ resp.status # 0 /\ resp.status < 400
        /\ args.path = "/session/{id}/message")
    => /\ outcome.kind = "return"
       /\ args.limit = LookBack
       /\ outcome.value = JStr(ExpectedText(IF ret.t = "list" THEN ret.msgs ELSE <<>>))

\* C9 happens: two assistant messages; the later one has text b, a tool part
\* and text a, and "b\na" was returned.
C9_Witness ==
    /\ WfcOver
    /\ outcome.kind = "return"
    /\ ret.t = "list"
    /\ Len(ret.msgs) = 2
    /\ ret.msgs[1] = [role |-> "assistant",
                      parts |-> <<[type |-> "text", text |-> <<"a">>]>>]
    /\ ret.msgs[2] = [role |-> "assistant",
                      parts |-> <<[type |-> "text", text |-> <<"b">>],
                                  [type |-> "tool", text |-> <<>>],
                                  [type |-> "text", text |-> <<"a">>]>>]
    /\ outcome.value.s = <<"b", "\n", "a">>

\* C10: by the response the last request received: an error status (4xx,
\* 5xx) ends the operation at once with OpenCodeAPIError carrying that status
\* and the raw body; 204 and an empty body make _request return null and any
\* other body its parsed document; so delete_session returns only on a
\* success status.
C10_OutcomeByResponse ==
    resp.status # 0
    => /\ resp.status >= 400
          => /\ pc = "idle"
             /\ outcome.kind = "raise"
             /\ outcome.exc = "OpenCodeAPIError"
             /\ outcome.status_code = resp.status
             /\ outcome.response = resp.body
       /\ resp.status < 400
          => /\ ret = Yield(resp)
             /\ (Finished /\ outcome.op \in SimpleOps) => outcome.kind = "return"
       /\ (Finished /\ outcome.op = "delete_session" /\ outcome.kind = "return")
          => (resp.status < 400 /\ outcome.value.t = "bool")

\* C10 happens: delete_session of an id the server no longer knows got 404
\* and raised the API error with that status.
C10_Witness ==
    /\ Finished
    /\ outcome.op = "delete_session"
    /\ outcome.exc = "OpenCodeAPIError"
    /\ outcome.status_code = 404
    /\ resp.status = 404

\* The positions inside start_server.
SsPcs == {"ss_entry", "ss_spawn", "ss_wait"}

\* This step is start_server returning: True to the constructor or to the
\* caller, or into the retry of _request.
StartReturns ==
    /\ pc \in SsPcs
    /\ IF op \in {"ctor", "start_server"}
       THEN pc' = "idle" /\ outcome'.kind = "return"
       ELSE pc' = "req_send"

\* The sequence m contains the sequence s.
Includes(m, s) ==
    \E i \in 1..(Len(m) + 1) :
        i + Len(s) - 1 <= Len(m) /\ SubSeq(m, i, i + Len(s) - 1) = s

\* The characters of a captured stream, as a reader of the message sees them.
Shown(bytes) ==
    IF bytes = <<>> THEN <<>>
    ELSE [i \in 1..Len(bytes) |->
             CASE bytes[i] = 111 -> "o" [] bytes[i] = 107 -> "k" [] OTHER -> "?"]

\* C11: when the startup loop of start_server ends at the timeout, it raises
\* ServerNotRunningError: for a child that has exited, with the "process
\* exited early" message including the captured stdout and stderr; for a
\* child still alive, with the "failed to respond within timeout" message.
\* And start_server returns True only on a health probe that succeeded.
C11_TimeoutErrorByChild ==
    [][/\ (pc = "ss_wait" /\ pc' # "ss_wait" /\ waited >= server_timeout)
          => /\ outcome'.kind = "raise"
             /\ outcome'.exc = "ServerNotRunningError"
             /\ IF proc[server_process] # "running"
                THEN /\ Includes(outcome'.msg, <<"Server process exited early">>)
                     /\ Includes(outcome'.msg, <<"stdout">> \o Shown(captured'.stdout))
                     /\ Includes(outcome'.msg, <<"stderr">> \o Shown(captured'.stderr))
                ELSE Includes(outcome'.msg,
                        <<"Server failed to respond within timeout period">>)
       /\ StartReturns => (health'.h.exc = "" /\ health'.h.status = 200)]_vars

\* C12: a start_server whose first health probe succeeds returns True (to
\* its caller, or into the retry of _request), spawns no process, signals
\* none, and leaves _server_process as it was.
C12_FoundServerIsNoOp ==
    [][(/\ pc = "ss_entry"
        /\ pc' # "ss_entry"
        /\ health'.h.exc = ""
        /\ health'.h.status = 200)
       => /\ IF op \in {"ctor", "start_server"}
             THEN /\ pc' = "idle"
                  /\ outcome' = Returned(op, IF op = "ctor" THEN JNull ELSE JBool(TRUE))
             ELSE /\ pc' = "req_send"
                  /\ outcome' = outcome
          /\ proc' = proc
          /\ sig' = sig
          /\ server_process' = server_process]_vars

\* C12 happens: the controller held the handle of a child it had spawned, a
\* request met a connection error, start_server found a server answering,
\* and the request is retried with the handle and the children as they were.
C12_Witness ==
    /\ pc = "req_send"
    /\ depth = 1
    /\ nStart = 1
    /\ health.h.status = 200
    /\ server_process # 0
    /\ server_process = proc0
    /\ Spawned = spawned0

\* The session sid is missing from the status map result (a map, or the null
\* of an empty or null response).
Absent(result, sid) == result.t \in {"null", "dict"} /\ sid \notin DOMAIN result.st

\* C13: when the server answers the status request with a map that lacks the
\* session id (or with an empty or null body), get_session_status returns
\* the record with status "unknown" and raises nothing, is_session_idle
\* returns False, and wait_for_completion sleeps and polls again instead of
\* fetching messages.
C13_AbsentIsUnknown ==
    [][/\ (/\ pc = "req_send"
           /\ nHttp' = nHttp + 1
           /\ resp'.status # 0
           /\ resp'.status < 400
           /\ args.path = "/session/status"
           /\ Absent(Yield(resp'), session_id))
          => CASE op = "get_session_status" ->
                    outcome' = Returned(op, JStr(<<"unknown">>))
               [] op = "is_session_idle" ->
                    outcome' = Returned(op, JBool(FALSE))
               [] OTHER ->
                    pc' = "wfc_status" /\ outcome'.kind = "none"
       /\ (pc = "wfc_status" /\ pc' # "wfc_status" /\ Absent(ret, session_id))
          => /\ pc' = "wfc_loop"
             /\ elapsed' = elapsed + 1
             /\ nFetch' = nFetch
             /\ sawIdle' = sawIdle
             /\ outcome' = outcome]_vars

\* C13 happens: the map named only another session, idle, and
\* get_session_status returned "unknown" for the one asked about.
C13_Witness ==
    /\ Finished
    /\ outcome.op = "get_session_status"
    /\ outcome.value = JStr(<<"unknown">>)
    /\ ret.t = "dict"
    /\ DOMAIN ret.st = {"s2"}
    /\ ret.st["s2"] = "idle"

\* C14: is_server_running gives True exactly when the health endpoint
\* answered 200; a connection failure, a probe timeout and a response with
\* another status give False and raise nothing; so start_server goes on to
\* spawn only after a probe that was no 200, and _request gives up on a
\* running server only after a 200.
C14_RunningIff200 ==
    /\ health.r.up <=> (health.h.exc = "" /\ health.h.status = 200)
    /\ (health.h.exc \in {"ConnectionError", "Timeout"}
          \/ (health.h.exc = "" /\ health.h.status \notin {0, 200}))
       => (~health.r.up /\ health.r.exc = "")
    /\ pc = "ss_spawn" => health.h.status # 200
    /\ probe = "up" => health.h.status = 200

\* C14 happens: the first probe of start_server timed out, and start_server
\* goes on to spawn the server.
C14_Witness ==
    /\ pc = "ss_spawn"
    /\ health.h.exc = "Timeout"
    /\ ~health.r.up
    /\ health.r.exc = ""

\* C15: when quick_task's wait_for_completion returns, the server has
\* finished the prompt and the value is the text of the reply it produced.
C15_ReturnsFinalText ==
    (/\ qt \in {"wait", "done"}
     /\ pc = "idle"
     /\ outcome.op = "wait_for_completion"
     /\ outcome.kind = "return")
    => /\ srv.phase = "done"
       /\ outcome.value = JStr(ExpectedText(srv.msgs))

\* C16: at most one child spawned by this controller is running.
C16_AtMostOneLiveChild == Cardinality(Running) <= 1

\* C17: a call of start_server ends by returning True or by raising
\* ServerNotRunningError; no other exception leaves it and it returns
\* nothing else.
C17_TrueOrServerNotRunning ==
    [][(pc \in SsPcs /\ pc' \notin SsPcs)
       => \/ /\ StartReturns
             /\ op = "start_server" => outcome'.value = JBool(TRUE)
          \/ /\ outcome'.kind = "raise"
             /\ outcome'.exc = "ServerNotRunningError"]_vars

====
